---- MODULE Spec2Model ----
(***************************************************************************)
(* State-machine model of ops-activities-backend: an Express proxy that   *)
(* caches one OAuth token (tokenStorage), forwards requests to an         *)
(* upstream API and keeps an in-memory map of deposit flags               *)
(* (depositsData).                                                        *)
(*                                                                         *)
(* Two deployments are modelled, selected by the variable variant:        *)
(*   "authcode"   src/node.js:1-350, authorization code + refresh token   *)
(*   "clientcred" src/unnamed/part_000:75-439, client credentials; the    *)
(*                same token code is repeated at src/node.js:351-644      *)
(*                                                                         *)
(* Node runs every handler to its next await without interruption, so     *)
(* one action is one synchronous segment of a handler: from the arrival   *)
(* of the request (or of the awaited HTTP response) to the next await or  *)
(* to the response sent to the client.  A request that is suspended in an *)
(* await occupies a slot r in Req; pc[r] names the await it is parked in. *)
(***************************************************************************)
EXTENDS Integers, FiniteSets, Sequences, TLC

\* ------------------------------------------------------------------------
\* Bounds of the model
\* ------------------------------------------------------------------------
TickMs == 300000
MaxTicks == 1
MaxContent == 2

\* the slots of suspended requests: two requests can be in flight at once
Req == {"A", "B"}
MaxNow == MaxTicks * TickMs

\* ------------------------------------------------------------------------
\* JavaScript values
\* ------------------------------------------------------------------------
\* Strings stand for themselves; null and undefined are the two strings
\* below (no token of the model is spelled that way).  Numbers are
\* integers >= 0; the three negative numbers stand for the non-numbers a
\* numeric field can hold.
Null == "null"
Undefined == "undefined"
NullTime == -1
NaN == -2
Missing == -3

BufferMs == 300000
NoStatus == 0
MsPerSecond == 1000

Variants == {"authcode", "clientcred"}
Tokens == {"t1", "t2"}
RefreshTokens == {"r1", "r2"}
ExpiresInChoices == {240, 300, 600}

\* !!v for the token fields (the model has no empty-string token)
Truthy(v) == v \notin {Null, Undefined}

\* x > y where y is a number and x is a number, null (ToNumber gives 0) or NaN
JsGreater(x, y) ==
  IF x = NaN THEN FALSE
  ELSE IF x = NullTime THEN 0 > y
  ELSE x > y

\* Date.now() + (expires_in * 1000); undefined * 1000 is NaN
ExpiryOf(t, expires_in) ==
  IF expires_in = Missing THEN NaN ELSE t + expires_in * MsPerSecond

\* response.data of a 2xx answer of the token endpoint
TokenResponses ==
  [access_token : Tokens \cup {Undefined},
   refresh_token : RefreshTokens \cup {Undefined},
   expires_in : ExpiresInChoices \cup {Missing}]

\* the client-credentials code reads access_token and expires_in only
AcquireResponses == {d \in TokenResponses : d.refresh_token = Undefined}

\* ------------------------------------------------------------------------
\* Values of the deposit routes
\* ------------------------------------------------------------------------
\* req.query.activityId: absent, empty, an ordinary id, two ids that name
\* properties every plain object inherits from Object.prototype, and an id
\* that names a property of the stored records
ActivityIds == {Undefined, "", "a1", "constructor", "__proto__", "updatedAt"}

\* what a field of the JSON body can hold: the booleans true and false, the
\* string "true", null and nothing (undefined)
BodyValues == {"true", "false", "'true'", "null", Undefined}

\* req.body of a PUT, as <<depositReturnComplete, depositTransferredToNewStudio>>:
\* the four pairs of booleans, and bodies with a string, a null or a missing
\* field in either or both places
Bodies ==
  ({"true", "false"} \X {"true", "false"}) \cup
  {<<"'true'", "true">>, <<"true", "null">>, <<Undefined, "false">>,
   <<"false", Undefined>>, <<Undefined, Undefined>>, <<"null", "'true'">>}

\* typeof v
TypeOf(v) ==
  CASE v \in {"true", "false"} -> "boolean"
    [] v = "'true'" -> "string"
    [] v = "null" -> "object"
    [] OTHER -> "undefined"

\* mutant: the test written activityId === undefined
IdGivenUnlessUndefined(id) == id # Undefined

\* !activityId is false for a non-empty string
IdGiven(id) == id \notin {Undefined, ""}

\* A value depositsData[activityId] can yield.  An object is given by its own
\* enumerable properties, Absent marking a property it does not have.
Absent == "<absent>"
Obj(r, t, u) ==
  [type |-> "object", depositReturnComplete |-> r,
   depositTransferredToNewStudio |-> t, updatedAt |-> u, value |-> Absent]
ObjectPrototype == Obj(Absent, Absent, Absent)
BuiltinFunction == [Obj(Absent, Absent, Absent) EXCEPT !.type = "function"]
UndefinedValue == [Obj(Absent, Absent, Absent) EXCEPT !.type = "undefined"]
NoBody == [Obj(Absent, Absent, Absent) EXCEPT !.type = "none"]

\* { depositReturnComplete: false, depositTransferredToNewStudio: false }
DefaultDeposit == Obj("false", "false", Absent)

\* new Date().toISOString(): one string per instant
IsoString(t) == ToString(t)

\* the methods of Object.prototype reachable by name among ActivityIds
InheritedKeys == {"constructor"}

\* the property names of a stored record
FieldNames == {"depositReturnComplete", "depositTransferredToNewStudio", "updatedAt"}

\* a boolean or a string read from a property
Primitive(v) ==
  [Obj(Absent, Absent, Absent) EXCEPT
     !.type = IF v \in {"true", "false"} THEN "boolean" ELSE "string",
     !.value = v]

\* depositsData[key]: an own property, else what the prototype chain gives
\* (__proto__ is the accessor that returns the prototype itself; a record
\* that was made the prototype lends its own properties)
Lookup(own, proto, key) ==
  IF key = "__proto__" THEN proto
  ELSE IF key \in DOMAIN own THEN own[key]
  ELSE IF key \in FieldNames /\ proto[key] # Absent THEN Primitive(proto[key])
  ELSE IF key \in InheritedKeys THEN BuiltinFunction
  ELSE UndefinedValue

\* mutant: depositsData[key] = depositsData[key] || rec
AssignKeepFirst(own, proto, key, rec) ==
  IF key = "__proto__" THEN <<own, IF proto = ObjectPrototype THEN rec ELSE proto>>
  ELSE IF key \in DOMAIN own THEN <<own, proto>>
  ELSE <<(key :> rec) @@ own, proto>>

\* depositsData[key] = rec: an own property, except that assigning an object
\* to __proto__ replaces the prototype.  <<own, proto>> afterwards
Assign(own, proto, key, rec) ==
  IF key = "__proto__" THEN <<own, rec>>
  ELSE <<(key :> rec) @@ own, proto>>

\* v || dflt: undefined and false are falsy
OrDefault(v, dflt) ==
  IF v.type = "undefined" \/ (v.type = "boolean" /\ v.value = "false")
  THEN dflt ELSE v

\* the body res.json(v) sends: JSON.stringify of a function is undefined
\* and nothing is sent
JsonBody(v) == IF v.type = "function" THEN NoBody ELSE v

DepositResponse(status, text, body) ==
  [status |-> status, text |-> text, body |-> body]

NoDepositResponse == DepositResponse(NoStatus, "", NoBody)

\* mutant: && written for || in the rejecting test
BothBooleanEither(r, t) == TypeOf(r) = "boolean" \/ TypeOf(t) = "boolean"

\* the test of the PUT handler on its two body fields
BothBoolean(r, t) == TypeOf(r) = "boolean" /\ TypeOf(t) = "boolean"

\* before any upstream answer has been processed
NoAnswer == [route |-> "none"]
NoReply == [route |-> "none"]

VARIABLES
  variant,        \* which deployment runs (fixed for the life of the process)
  now,            \* Date.now(), in milliseconds
  tokenStorage,   \* let tokenStorage = { accessToken, refreshToken, expiresAt }
  pc,             \* pc[r]: "idle" | "awaitToken" | "awaitUpstream"
  kind,           \* kind[r]: "proxy" | "test" | "callback", the handler parked in r
  tok,            \* tok[r]: the handler's local accessToken
  tcalls,         \* tcalls[r]: token-endpoint requests issued by the handler
  sent,           \* sent[r]: refresh_token of the request in flight
  res,            \* the response the latest step sent (NoResponse: none)
  loggedOut,      \* history: logout handled, no code exchange since
  refreshFailed,  \* history: a refresh failed, no code exchange since
  depositsData,   \* own properties of let depositsData = {}
  depositsProto,  \* [[Prototype]] of depositsData
  depositRes,     \* the response of a deposit route the latest step sent
  response,       \* the upstream answer a proxy route has just processed
  reply           \* what the route made of it for the client

tokenVars == <<tokenStorage, loggedOut, refreshFailed>>
reqVars == <<pc, kind, tok, tcalls, sent>>
depositVars == <<depositsData, depositsProto, depositRes>>
payloadVars == <<response, reply>>
vars == <<variant, now, tokenStorage, pc, kind, tok, tcalls, sent, res,
          loggedOut, refreshFailed, depositsData, depositsProto, depositRes,
          response, reply>>

\* ------------------------------------------------------------------------
\* Token cache
\* ------------------------------------------------------------------------
EmptyStorage == [accessToken |-> Null, refreshToken |-> Null, expiresAt |-> NullTime]

\* mutant: the buffer taken twice
TokenFreshDoubleBuffer(ts, t) ==
  /\ Truthy(ts.accessToken)
  /\ JsGreater(ts.expiresAt, t + 2 * BufferMs)

\* mutant: the buffer forgotten
TokenFreshNoBuffer(ts, t) ==
  /\ Truthy(ts.accessToken)
  /\ JsGreater(ts.expiresAt, t)

\* tokenStorage.accessToken && tokenStorage.expiresAt > Date.now() + 300000
TokenFresh(ts, t) ==
  /\ Truthy(ts.accessToken)
  /\ JsGreater(ts.expiresAt, t + BufferMs)

\* mutant: the exchange keeps the old refresh token when none is returned
StoreExchangeKeepsRefresh(ts, d, t) ==
  [accessToken |-> d.access_token,
   refreshToken |-> IF Truthy(d.refresh_token) THEN d.refresh_token
                    ELSE ts.refreshToken,
   expiresAt |-> ExpiryOf(t, d.expires_in)]

\* exchangeCodeForTokens, after the await
StoreExchange(ts, d, t) ==
  [accessToken |-> d.access_token,
   refreshToken |-> d.refresh_token,
   expiresAt |-> ExpiryOf(t, d.expires_in)]

\* refreshAccessToken, after the await
StoreRefresh(ts, d, t) ==
  [accessToken |-> d.access_token,
   refreshToken |-> IF Truthy(d.refresh_token) THEN d.refresh_token
                    ELSE ts.refreshToken,
   expiresAt |-> ExpiryOf(t, d.expires_in)]

\* mutant: expiresAt written only when the answer carries expires_in
StoreAcquireKeepsExpiry(ts, d, t) ==
  [ts EXCEPT !.accessToken = d.access_token,
             !.expiresAt = IF d.expires_in = Missing THEN ts.expiresAt
                           ELSE ExpiryOf(t, d.expires_in)]

\* getAccessToken, after the await (tokenStorage has no refreshToken there:
\* the field stays null in the model)
StoreAcquire(ts, d, t) ==
  [ts EXCEPT !.accessToken = d.access_token,
             !.expiresAt = ExpiryOf(t, d.expires_in)]

\* the refresh_token field of the body refreshAccessToken posts
RefreshRequest(ts) == ts.refreshToken

\* message of the Error getValidAccessToken throws
AuthMessage(v) ==
  IF v = "authcode" THEN "Authentication required" ELSE "Authentication failed"

\* ------------------------------------------------------------------------
\* Responses
\* ------------------------------------------------------------------------
UpstreamStatuses == {200, 401, 503}
ActivityTypes == {"CLEANING", "OTHER"}
ProxyRoutes == {"list", "get", "forward"}

Response(route, status, requiresAuth, body) ==
  [route |-> route, status |-> status, requiresAuth |-> requiresAuth, body |-> body]

NoResponse == Response("none", NoStatus, FALSE, "")

\* mutant: the status of the upstream answer dropped, 500 sent for it
ErrorResponseLocalStatus(v, route, err) ==
  IF err.status = 401 THEN Response(route, 401, TRUE, AuthMessage(v))
  ELSE IF err.message = AuthMessage(v) THEN Response(route, 401, TRUE, AuthMessage(v))
  ELSE Response(route, 500, FALSE, err.message)

\* the catch block of the three proxy routes; err.status is the status of
\* error.response (NoStatus when there is none), err.message error.message
ErrorResponse(v, route, err) ==
  IF err.status = 401 THEN Response(route, 401, TRUE, AuthMessage(v))
  ELSE IF err.message = AuthMessage(v) THEN Response(route, 401, TRUE, AuthMessage(v))
  ELSE Response(route, IF err.status # NoStatus THEN err.status ELSE 500, FALSE,
                err.message)

\* mutant: the catch block of GET /auth/test answering 500
AuthTestFailureAs500(err) == Response("test", 500, FALSE, err.message)

\* the catch block of GET /auth/test
AuthTestFailure(err) == Response("test", 401, FALSE, err.message)

\* the try block of a proxy route once the upstream answered 2xx
SuccessResponse(v, route, status, activityType) ==
  IF route = "get" /\ v = "clientcred" /\ activityType # "CLEANING"
  THEN Response(route, 404, FALSE, "Activity not found or not a cleaning activity")
  ELSE Response(route, IF route = "forward" THEN status ELSE 200, FALSE, "data")

\* ------------------------------------------------------------------------
\* Request slots
\* ------------------------------------------------------------------------
Park(r, p, k, t, n, s) ==
  /\ pc' = [pc EXCEPT ![r] = p]
  /\ kind' = [kind EXCEPT ![r] = k]
  /\ tok' = [tok EXCEPT ![r] = t]
  /\ tcalls' = [tcalls EXCEPT ![r] = n]
  /\ sent' = [sent EXCEPT ![r] = s]

Release(r) == Park(r, "idle", "none", Null, 0, Null)

\* ------------------------------------------------------------------------
\* Initial state
\* ------------------------------------------------------------------------
Init ==
  /\ variant \in Variants
  /\ now = 0
  /\ tokenStorage = EmptyStorage
  /\ pc = [r \in Req |-> "idle"]
  /\ kind = [r \in Req |-> "none"]
  /\ tok = [r \in Req |-> Null]
  /\ tcalls = [r \in Req |-> 0]
  /\ sent = [r \in Req |-> Null]
  /\ res = NoResponse
  /\ loggedOut = FALSE
  /\ refreshFailed = FALSE
  /\ depositsData = <<>>
  /\ depositsProto = ObjectPrototype
  /\ depositRes = NoDepositResponse
  /\ response = NoAnswer
  /\ reply = NoReply

\* ------------------------------------------------------------------------
\* Time
\* ------------------------------------------------------------------------
Tick ==
  /\ now + TickMs <= MaxNow
  /\ now' = now + TickMs
  /\ res' = NoResponse
  /\ depositRes' = NoDepositResponse
  /\ UNCHANGED <<variant, tokenVars, reqVars, depositsData, depositsProto, payloadVars>>

\* ------------------------------------------------------------------------
\* getValidAccessToken, up to its first await, inside a route handler
\* ------------------------------------------------------------------------
\* GET /api/v3/activities, GET /api/v3/activities/:id and app.use('/api/*')
\* run the same statements up to the answer of the upstream API.  A parked
\* handler of one of them is recorded as kind "proxy"; which of the three
\* routes it serves is an input of the step that sends its response.

\* fast path of a proxy route: the cached token is returned and the handler
\* goes on to await the upstream call
ReuseToken(r) ==
  /\ pc[r] = "idle"
  /\ TokenFresh(tokenStorage, now)
  /\ Park(r, "awaitUpstream", "proxy", tokenStorage.accessToken, 0, Null)
  /\ res' = NoResponse
  /\ UNCHANGED <<variant, now, tokenVars, depositVars, payloadVars>>

\* fast path of GET /auth/test: answered without any await on the network
AuthTestReuse ==
  /\ variant = "clientcred"
  /\ TokenFresh(tokenStorage, now)
  /\ res' = Response("test", 200, FALSE, "Authentication successful")
  /\ UNCHANGED <<variant, now, tokenVars, reqVars, depositVars, payloadVars>>

\* authorization-code variant, stale token, refresh token cached:
\* refreshAccessToken posts grant_type=refresh_token and awaits
StartRefresh(r) ==
  /\ variant = "authcode"
  /\ pc[r] = "idle"
  /\ ~TokenFresh(tokenStorage, now)
  /\ Truthy(tokenStorage.refreshToken)
  /\ Park(r, "awaitToken", "proxy", Null, 1, RefreshRequest(tokenStorage))
  /\ res' = NoResponse
  /\ UNCHANGED <<variant, now, tokenVars, depositVars, payloadVars>>

\* mutant: the tokens cleared as in the catch block of a failed refresh
NoRefreshTokenClears(route) ==
  /\ variant = "authcode"
  /\ route \in ProxyRoutes
  /\ ~TokenFresh(tokenStorage, now)
  /\ ~Truthy(tokenStorage.refreshToken)
  /\ tokenStorage' = EmptyStorage
  /\ res' = ErrorResponse(variant, route,
                          [status |-> NoStatus, message |-> AuthMessage(variant)])
  /\ UNCHANGED <<variant, now, loggedOut, refreshFailed, reqVars, depositVars, payloadVars>>

\* authorization-code variant, stale token, no refresh token: throws at once
NoRefreshToken(route) ==
  /\ variant = "authcode"
  /\ route \in ProxyRoutes
  /\ ~TokenFresh(tokenStorage, now)
  /\ ~Truthy(tokenStorage.refreshToken)
  /\ res' = ErrorResponse(variant, route,
                          [status |-> NoStatus, message |-> AuthMessage(variant)])
  /\ UNCHANGED <<variant, now, tokenVars, reqVars, depositVars, payloadVars>>

\* client-credentials variant, stale token: getAccessToken posts
\* grant_type=client_credentials and awaits
StartAcquire(r, k) ==
  /\ variant = "clientcred"
  /\ pc[r] = "idle"
  /\ k \in {"proxy", "test"}
  /\ ~TokenFresh(tokenStorage, now)
  /\ Park(r, "awaitToken", k, Null, 1, Null)
  /\ res' = NoResponse
  /\ UNCHANGED <<variant, now, tokenVars, depositVars, payloadVars>>

\* ------------------------------------------------------------------------
\* The token endpoint answers
\* ------------------------------------------------------------------------
\* 2xx to a refresh: the fields are stored, getValidAccessToken returns
\* tokenStorage.accessToken and the handler awaits the upstream call
RefreshSucceeds(r, d) ==
  /\ variant = "authcode"
  /\ pc[r] = "awaitToken"
  /\ kind[r] = "proxy"
  /\ d \in TokenResponses
  /\ tokenStorage' = StoreRefresh(tokenStorage, d, now)
  /\ Park(r, "awaitUpstream", kind[r], tokenStorage'.accessToken, tcalls[r], Null)
  /\ res' = NoResponse
  /\ UNCHANGED <<variant, now, loggedOut, refreshFailed, depositVars, payloadVars>>

\* network error or non-2xx to a refresh: getValidAccessToken replaces
\* tokenStorage by an empty record and throws 'Authentication required'
RefreshFails(r, route) ==
  /\ variant = "authcode"
  /\ pc[r] = "awaitToken"
  /\ kind[r] = "proxy"
  /\ route \in ProxyRoutes
  /\ tokenStorage' = EmptyStorage
  /\ refreshFailed' = TRUE
  /\ res' = ErrorResponse(variant, route,
                          [status |-> NoStatus, message |-> AuthMessage(variant)])
  /\ Release(r)
  /\ UNCHANGED <<variant, now, loggedOut, depositVars, payloadVars>>

\* 2xx to a client-credentials request
AcquireSucceeds(r, d) ==
  /\ variant = "clientcred"
  /\ pc[r] = "awaitToken"
  /\ d \in AcquireResponses
  /\ tokenStorage' = StoreAcquire(tokenStorage, d, now)
  /\ IF kind[r] = "test"
     THEN /\ res' = Response("test", 200, FALSE, "Authentication successful")
          /\ Release(r)
     ELSE /\ Park(r, "awaitUpstream", kind[r], d.access_token, tcalls[r], Null)
          /\ res' = NoResponse
  /\ UNCHANGED <<variant, now, loggedOut, refreshFailed, depositVars, payloadVars>>

\* mutant: a failed client-credentials request is sent a second time
AcquireFailsRetries(r, route) ==
  /\ variant = "clientcred"
  /\ pc[r] = "awaitToken"
  /\ tcalls[r] < 2
  /\ route \in ProxyRoutes \cup {"test"}
  /\ Park(r, "awaitToken", kind[r], Null, tcalls[r] + 1, Null)
  /\ res' = NoResponse
  /\ UNCHANGED <<variant, now, tokenVars, depositVars, payloadVars>>

\* network error or non-2xx to a client-credentials request:
\* getValidAccessToken throws 'Authentication failed', nothing is stored
AcquireFails(r, route) ==
  /\ variant = "clientcred"
  /\ pc[r] = "awaitToken"
  /\ route \in IF kind[r] = "test" THEN {"test"} ELSE ProxyRoutes
  /\ res' = IF route = "test"
            THEN AuthTestFailure([status |-> NoStatus, message |-> AuthMessage(variant)])
            ELSE ErrorResponse(variant, route,
                               [status |-> NoStatus, message |-> AuthMessage(variant)])
  /\ Release(r)
  /\ UNCHANGED <<variant, now, tokenVars, depositVars, payloadVars>>

\* ------------------------------------------------------------------------
\* Authorization-code routes
\* ------------------------------------------------------------------------
\* GET /auth/callback with an error parameter, or without a code
CallbackRejected(q) ==
  /\ variant = "authcode"
  /\ q \in {"error", "nocode"}
  /\ res' = Response("callback", 400, FALSE,
                     IF q = "error" THEN "OAuth error" ELSE "Authorization code not provided")
  /\ UNCHANGED <<variant, now, tokenVars, reqVars, depositVars, payloadVars>>

\* GET /auth/callback?code=...: exchangeCodeForTokens posts the code and awaits
StartExchange(r) ==
  /\ variant = "authcode"
  /\ pc[r] = "idle"
  /\ Park(r, "awaitToken", "callback", Null, 1, Null)
  /\ res' = NoResponse
  /\ UNCHANGED <<variant, now, tokenVars, depositVars, payloadVars>>

\* 2xx to the code exchange: the fields are stored, redirect with auth=success
ExchangeSucceeds(r, d) ==
  /\ variant = "authcode"
  /\ pc[r] = "awaitToken"
  /\ kind[r] = "callback"
  /\ d \in TokenResponses
  /\ tokenStorage' = StoreExchange(tokenStorage, d, now)
  /\ loggedOut' = FALSE
  /\ refreshFailed' = FALSE
  /\ res' = Response("callback", 302, FALSE, "auth=success")
  /\ Release(r)
  /\ UNCHANGED <<variant, now, depositVars, payloadVars>>

\* network error or non-2xx to the code exchange: redirect with auth=error
ExchangeFails(r) ==
  /\ variant = "authcode"
  /\ pc[r] = "awaitToken"
  /\ kind[r] = "callback"
  /\ res' = Response("callback", 302, FALSE, "auth=error")
  /\ Release(r)
  /\ UNCHANGED <<variant, now, tokenVars, depositVars, payloadVars>>

\* POST /auth/logout
Logout ==
  /\ variant = "authcode"
  /\ tokenStorage' = EmptyStorage
  /\ loggedOut' = TRUE
  /\ res' = Response("logout", 200, FALSE, "Logged out successfully")
  /\ UNCHANGED <<variant, now, refreshFailed, reqVars, depositVars, payloadVars>>

\* ------------------------------------------------------------------------
\* The upstream API answers a proxy route
\* ------------------------------------------------------------------------
\* activityType is read by GET /api/v3/activities/:id of the
\* client-credentials deployment only, and only from a 2xx answer
ReadsActivityType(v, route, status) ==
  v = "clientcred" /\ route = "get" /\ status = 200

UpstreamResponds(r, route, status, activityType) ==
  /\ pc[r] = "awaitUpstream"
  /\ route \in ProxyRoutes
  /\ status \in UpstreamStatuses \cup {NoStatus}
  /\ activityType \in IF ReadsActivityType(variant, route, status)
                      THEN ActivityTypes ELSE {"CLEANING"}
  /\ res' = IF status = 200
            THEN SuccessResponse(variant, route, status, activityType)
            ELSE ErrorResponse(variant, route,
                               [status |-> status, message |-> "Request failed"])
  /\ Release(r)
  /\ UNCHANGED <<variant, now, tokenVars, depositVars, payloadVars>>

\* ------------------------------------------------------------------------
\* Specification of the token cache and the routes that use it
\* ------------------------------------------------------------------------
Next ==
  \/ Tick
  \/ \E r \in Req : ReuseToken(r)
  \/ AuthTestReuse
  \/ \E r \in Req : StartRefresh(r)
  \/ \E route \in ProxyRoutes : NoRefreshToken(route)
  \/ \E r \in Req, k \in {"proxy", "test"} : StartAcquire(r, k)
  \/ \E r \in Req, d \in TokenResponses : RefreshSucceeds(r, d)
  \/ \E r \in Req, route \in ProxyRoutes : RefreshFails(r, route)
  \/ \E r \in Req, d \in AcquireResponses : AcquireSucceeds(r, d)
  \/ \E r \in Req, route \in ProxyRoutes \cup {"test"} : AcquireFails(r, route)
  \/ \E q \in {"error", "nocode"} : CallbackRejected(q)
  \/ \E r \in Req : StartExchange(r)
  \/ \E r \in Req, d \in TokenResponses : ExchangeSucceeds(r, d)
  \/ \E r \in Req : ExchangeFails(r)
  \/ Logout
  \/ \E r \in Req, route \in ProxyRoutes, status \in UpstreamStatuses \cup {NoStatus},
        activityType \in ActivityTypes : UpstreamResponds(r, route, status, activityType)

Spec == Init /\ [][Next]_vars

\* ------------------------------------------------------------------------
\* Deposit routes
\* ------------------------------------------------------------------------
\* mutant: the deposit route registered after app.use('/api/*'), whose handler
\* asks for a token first
GetDepositBehindProxy(id) ==
  /\ id \in ActivityIds
  /\ \E r \in Req : ReuseToken(r) \/ StartAcquire(r, "proxy")

\* GET /api/activity-deposits
GetDeposit(id) ==
  /\ id \in ActivityIds
  /\ depositRes' =
       IF ~IdGiven(id)
       THEN DepositResponse(400, "Activity ID is required", NoBody)
       ELSE DepositResponse(200, "",
              JsonBody(OrDefault(Lookup(depositsData, depositsProto, id),
                                 DefaultDeposit)))
  /\ UNCHANGED <<variant, now, tokenVars, reqVars, res, depositsData, depositsProto, payloadVars>>

\* PUT /api/activity-deposits
PutDeposit(id, r, t) ==
  /\ id \in ActivityIds
  /\ r \in BodyValues
  /\ t \in BodyValues
  /\ IF ~IdGiven(id)
     THEN /\ depositRes' = DepositResponse(400, "Activity ID is required", NoBody)
          /\ UNCHANGED <<depositsData, depositsProto>>
     ELSE IF ~BothBoolean(r, t)
     THEN /\ depositRes' = DepositResponse(400, "must be boolean values", NoBody)
          /\ UNCHANGED <<depositsData, depositsProto>>
     ELSE /\ LET after == Assign(depositsData, depositsProto, id,
                                 Obj(r, t, IsoString(now)))
             IN /\ depositsData' = after[1]
                /\ depositsProto' = after[2]
          /\ depositRes' =
               DepositResponse(200, "Deposit status updated successfully",
                 JsonBody(Lookup(depositsData', depositsProto', id)))
  /\ UNCHANGED <<variant, now, tokenVars, reqVars, res, payloadVars>>

\* ------------------------------------------------------------------------
\* Specification of the deposit store (the client-credentials deployment)
\* ------------------------------------------------------------------------
InitDeposit == Init /\ variant = "clientcred"

\* the ids the requests of this specification carry
DepositIds == {Undefined, "", "a1", "constructor", "__proto__"}

NextDeposit ==
  \/ Tick
  \/ \E id \in DepositIds : GetDeposit(id)
  \/ \E id \in DepositIds, b \in Bodies : PutDeposit(id, b[1], b[2])

SpecDeposit == InitDeposit /\ [][NextDeposit]_vars

\* ------------------------------------------------------------------------
\* Specification of the deposit store with ids that meet the prototype of
\* depositsData and the properties of a stored record
\* ------------------------------------------------------------------------
RecordIds == {"a1", "__proto__", "updatedAt"}
RecordBodies == {<<"true", "false">>, <<"false", "true">>, <<"'true'", "true">>}

NextRecords ==
  \/ Tick
  \/ \E id \in RecordIds : GetDeposit(id)
  \/ \E id \in RecordIds, b \in RecordBodies : PutDeposit(id, b[1], b[2])

SpecRecords == InitDeposit /\ [][NextRecords]_vars

\* ------------------------------------------------------------------------
\* Specification of the deposit routes beside the token cache and the proxy
\* routes (the client-credentials deployment, one proxy request in flight)
\* ------------------------------------------------------------------------
StoreIds == {"", "a1"}
StoreBodies == {<<"true", "false">>, <<"'true'", "true">>}

NextStore ==
  \/ Tick
  \/ ReuseToken("A")
  \/ AuthTestReuse
  \/ \E k \in {"proxy", "test"} : StartAcquire("A", k)
  \/ \E d \in AcquireResponses : AcquireSucceeds("A", d)
  \/ \E route \in ProxyRoutes \cup {"test"} : AcquireFails("A", route)
  \/ \E route \in ProxyRoutes, status \in UpstreamStatuses \cup {NoStatus},
        activityType \in ActivityTypes :
          UpstreamResponds("A", route, status, activityType)
  \/ \E id \in StoreIds : GetDeposit(id)
  \/ \E id \in StoreIds, b \in StoreBodies : PutDeposit(id, b[1], b[2])

SpecStore == InitDeposit /\ [][NextStore]_vars

\* ------------------------------------------------------------------------
\* Routes that report the token state
\* ------------------------------------------------------------------------
\* the JSON text of a boolean
BoolText(b) == IF b THEN "true" ELSE "false"

\* GET /health: authenticated is !!tokenStorage.accessToken
Health ==
  /\ res' = Response("health", 200, FALSE,
                     "authenticated: " \o BoolText(Truthy(tokenStorage.accessToken)))
  /\ UNCHANGED <<variant, now, tokenVars, reqVars, depositVars, payloadVars>>

\* tokenStorage.expiresAt ? new Date(tokenStorage.expiresAt).toISOString() : null
\* (null, NaN and 0 are falsy)
ExpiresAtText(e) == IF e \in {NullTime, NaN, 0} THEN "null" ELSE IsoString(e)

\* GET /auth/status: authenticated is
\* !!(tokenStorage.accessToken && tokenStorage.expiresAt > Date.now())
AuthStatus ==
  /\ variant = "authcode"
  /\ res' = Response("status", 200, FALSE,
                     "authenticated: "
                       \o BoolText(Truthy(tokenStorage.accessToken)
                                     /\ JsGreater(tokenStorage.expiresAt, now))
                       \o ", expiresAt: " \o ExpiresAtText(tokenStorage.expiresAt))
  /\ UNCHANGED <<variant, now, tokenVars, reqVars, depositVars, payloadVars>>

\* ------------------------------------------------------------------------
\* Specification of every route that reads or writes tokenStorage, beside
\* the deposit routes of the client-credentials deployment
\* ------------------------------------------------------------------------
AuthIds == {"a1"}
AuthBodies == {<<"true", "false">>, <<"'true'", "true">>}

NextAuth ==
  \/ Next
  \/ Health
  \/ AuthStatus
  \/ variant = "clientcred" /\ \E id \in AuthIds : GetDeposit(id)
  \/ variant = "clientcred" /\ \E id \in AuthIds, b \in AuthBodies : PutDeposit(id, b[1], b[2])

SpecAuth == Init /\ [][NextAuth]_vars

\* ========================================================================
\* Claims
\* ========================================================================
\* the claims' own reading of the token state
FiveMinutes == 300000
HasAccessToken == tokenStorage.accessToken \in Tokens
HasExpiry == tokenStorage.expiresAt >= 0
CachedBeyondBuffer ==
  HasAccessToken /\ HasExpiry /\ tokenStorage.expiresAt > now + FiveMinutes
CachedWithinBuffer ==
  HasAccessToken /\ HasExpiry /\ tokenStorage.expiresAt <= now + FiveMinutes

\* the step is a call of getValidAccessToken by a handler that then waits in r
CallParks(r) ==
  pc[r] = "idle" /\ pc'[r] # "idle" /\ kind'[r] \in {"proxy", "test"}

\* the step is a call of getValidAccessToken by a handler that answers at once
CallAnswersAtOnce ==
  reqVars' = reqVars /\ res'.route \in ProxyRoutes \cup {"test"}

\* C1: token reuse.  Whenever the cache holds an access token whose expiresAt
\* is more than 5 minutes after now, a call of getValidAccessToken returns
\* that token, issues no token-endpoint request and leaves tokenStorage as it
\* was, in both variants.
C1_TokenReuse ==
  [][CachedBeyondBuffer =>
       /\ \A r \in Req :
            CallParks(r) =>
              /\ pc'[r] = "awaitUpstream"
              /\ tok'[r] = tokenStorage.accessToken
              /\ tcalls'[r] = 0
              /\ tokenStorage' = tokenStorage
       /\ CallAnswersAtOnce =>
              /\ res' = Response("test", 200, FALSE, "Authentication successful")
              /\ tokenStorage' = tokenStorage]_vars

\* C1 witness: a handler holds the cached token it got without any
\* token-endpoint request, the token being valid beyond the buffer
C1_Witness ==
  \E r \in Req :
    /\ CachedBeyondBuffer
    /\ pc[r] = "awaitUpstream"
    /\ tcalls[r] = 0
    /\ tok[r] = tokenStorage.accessToken

\* C2: refresh boundary.  With a cached token whose expiresAt is at most 5
\* minutes after now (and, in the authorization-code variant, a cached
\* refresh token), one call of getValidAccessToken issues exactly one
\* token-endpoint request: it is issued in the calling step, the call never
\* answers without it, and no second one follows while the call lasts.
C2_RefreshBoundary ==
  [][/\ (CachedWithinBuffer
          /\ (variant = "clientcred" \/ tokenStorage.refreshToken \in RefreshTokens)) =>
            /\ \A r \in Req :
                 CallParks(r) => pc'[r] = "awaitToken" /\ tcalls'[r] = 1
            /\ ~CallAnswersAtOnce
     /\ \A r \in Req :
          pc[r] = "awaitToken" =>
            /\ tcalls[r] = 1
            /\ pc'[r] # "idle" => tcalls'[r] = 1]_vars

\* C2 witness: a token-endpoint request is in flight for a cached token that
\* expires exactly 5 minutes from now
C2_Witness ==
  \E r \in Req :
    /\ HasAccessToken
    /\ tokenStorage.expiresAt = now + FiveMinutes
    /\ pc[r] = "awaitToken"
    /\ kind[r] # "callback"
    /\ tcalls[r] = 1

\* no field of tokenStorage holds a token or an instant
Cleared ==
  /\ ~HasAccessToken
  /\ tokenStorage.refreshToken \notin RefreshTokens
  /\ ~HasExpiry

\* C3: authorization-code variant.  Once a refresh has failed, and until a
\* code exchange succeeds, accessToken, refreshToken and expiresAt are all
\* cleared, so that every call of getValidAccessToken fails (no token to
\* reuse, no refresh token to try).
C3_RefreshFailureLocksOut ==
  refreshFailed => Cleared

\* C4: once POST /auth/logout has been handled, and until a code exchange
\* succeeds, accessToken, refreshToken and expiresAt are all empty.
C4_LogoutStaysLoggedOut ==
  loggedOut => Cleared

\* C5: in every reachable state of either variant, an access token that is
\* present comes with an expiresAt that is a defined instant.
C5_AccessTokenHasExpiry ==
  HasAccessToken => HasExpiry

\* C6: between the expiry check of getValidAccessToken and the write of the
\* token it obtains, no other handler modifies tokenStorage.
C6_NoPreemption ==
  [][\A r \in Req :
       (pc[r] = "awaitToken" /\ kind[r] # "callback" /\ pc'[r] = "awaitToken")
         => tokenStorage' = tokenStorage]_vars

\* C7: duplicate refreshes are harmless.  When request a's token call has
\* succeeded and its token, valid beyond the buffer, is cached (so request
\* b's call, still in flight, was started before it was stored), the failure
\* of b's call leaves an access token and an expiry in tokenStorage.
C7_DuplicateRefreshHarmless ==
  [][\A a \in Req, b \in Req :
       (/\ a # b
        /\ pc[a] = "awaitUpstream"
        /\ tcalls[a] = 1
        /\ tok[a] = tokenStorage.accessToken
        /\ CachedBeyondBuffer
        /\ pc[b] = "awaitToken"
        /\ kind[b] # "callback"
        /\ pc'[b] = "idle"
        /\ res'.status = 401)
         => /\ tokenStorage'.accessToken \in Tokens
            /\ tokenStorage'.expiresAt >= 0]_vars

\* the claims' own reading of the deposit store
Booleans == {"true", "false"}
HasRecord(a) ==
  IF a = "__proto__" THEN depositsProto # ObjectPrototype
  ELSE a \in DOMAIN depositsData
StoredRecord(a) ==
  IF a = "__proto__" THEN depositsProto ELSE depositsData[a]
NonEmptyIds == ActivityIds \ {Undefined, ""}

\* C8: deposit default.  For every non-empty activity id a, a getStatus(a)
\* before any successful setStatus(a, ...) answers 200 with exactly
\* {depositReturnComplete: false, depositTransferredToNewStudio: false}.
C8_DepositDefault ==
  [][\A a \in NonEmptyIds :
       (~HasRecord(a) /\ GetDeposit(a))
         => depositRes' = DepositResponse(200, "", Obj("false", "false", Absent))]_vars

\* C9: deposit round trip.  For every non-empty id a and booleans r, t:
\* setStatus(a, r, t) answers 200 with the record {r, t, updatedAt}, which is
\* the record then stored; the record stays as it is until the next
\* successful setStatus(a, ...); and getStatus(a) answers 200 with it.
C9_DepositRoundTrip ==
  [][\A a \in NonEmptyIds :
       /\ \A r \in Booleans, t \in Booleans :
            PutDeposit(a, r, t) =>
              /\ depositRes'.status = 200
              /\ depositRes'.body = Obj(r, t, ToString(now))
              /\ HasRecord(a)'
              /\ StoredRecord(a)' = depositRes'.body
       /\ (HasRecord(a) /\ ~(\E r \in Booleans, t \in Booleans : PutDeposit(a, r, t))) =>
              /\ HasRecord(a)'
              /\ StoredRecord(a)' = StoredRecord(a)
       /\ (HasRecord(a) /\ GetDeposit(a)) =>
              /\ depositRes' = DepositResponse(200, "", StoredRecord(a))
              /\ depositRes'.body.depositReturnComplete \in Booleans
              /\ depositRes'.body.depositTransferredToNewStudio \in Booleans
              /\ depositRes'.body.updatedAt # Absent]_vars

\* C9 witness: after time has passed, a getStatus has just answered with the
\* record a setStatus stored for a1
C9_Witness ==
  /\ now > 0
  /\ HasRecord("a1")
  /\ StoredRecord("a1") = Obj("true", "false", ToString(now))
  /\ depositRes = DepositResponse(200, "", StoredRecord("a1"))

\* C10: deposit validation.  A setStatus whose depositReturnComplete or
\* depositTransferredToNewStudio is not a boolean answers 400 and leaves the
\* whole deposit store as it was.
C10_DepositValidation ==
  [][\/ /\ depositRes'.status = 400
        /\ depositsData' = depositsData
        /\ depositsProto' = depositsProto
     \/ \A a \in ActivityIds, b \in Bodies :
          ~(b[1] \in Booleans /\ b[2] \in Booleans) => ~PutDeposit(a, b[1], b[2])]_vars

\* C10 witness: a setStatus has just been refused for its body while a record
\* is stored
C10_Witness ==
  /\ HasRecord("a1")
  /\ depositRes = DepositResponse(400, "must be boolean values", NoBody)

\* the activityId values for which !activityId holds
MissingIds == {Undefined, ""}
RequiredIdResponse == DepositResponse(400, "Activity ID is required", NoBody)

\* C11: missing activity id.  GET and PUT /api/activity-deposits with an
\* absent or empty activityId answer 400 "Activity ID is required", and the
\* PUT leaves the deposit store as it was whatever its body holds, two
\* booleans included.
C11_MissingActivityId ==
  [][\A a \in MissingIds :
       /\ GetDeposit(a) => depositRes' = RequiredIdResponse
       /\ \A b \in Bodies :
            PutDeposit(a, b[1], b[2]) =>
              /\ depositRes' = RequiredIdResponse
              /\ depositsData' = depositsData
              /\ depositsProto' = depositsProto]_vars

\* C11 witness: a request without an id has just been refused while a record
\* is stored, and no record sits under the empty id
C11_Witness ==
  /\ HasRecord("a1")
  /\ ~HasRecord("")
  /\ depositRes = RequiredIdResponse

\* the step is a request to one of the deposit routes
DepositStep ==
  \/ \E a \in ActivityIds : GetDeposit(a)
  \/ \E a \in ActivityIds, b \in Bodies : PutDeposit(a, b[1], b[2])

\* the step changes the deposit store
StoreChanges == depositsData' # depositsData \/ depositsProto' # depositsProto

\* C12: deposit store independence.  A getStatus or setStatus is answered in
\* the step that receives it, whatever the token state, without parking on
\* any network call and without changing tokenStorage; and the deposit store
\* changes in no step other than a setStatus (no token or proxy step
\* modifies it).
C12_StoreIndependence ==
  [][/\ \A a \in StoreIds : ENABLED GetDeposit(a)
     /\ \A a \in StoreIds, b \in StoreBodies : ENABLED PutDeposit(a, b[1], b[2])
     /\ DepositStep =>
          /\ tokenStorage' = tokenStorage
          /\ reqVars' = reqVars
          /\ res' = res
          /\ depositRes'.status \in {200, 400}
     /\ StoreChanges =>
          /\ \E a \in ActivityIds, b \in Bodies : PutDeposit(a, b[1], b[2])
          /\ tokenStorage' = tokenStorage
          /\ reqVars' = reqVars]_vars

\* C12 witness: a getStatus has just returned the stored record while the
\* cached token is stale and a token request of a proxy route is in flight
C12_Witness ==
  /\ HasAccessToken
  /\ CachedWithinBuffer
  /\ pc["A"] = "awaitToken"
  /\ HasRecord("a1")
  /\ depositRes = DepositResponse(200, "", StoredRecord("a1"))

\* ========================================================================
\* Upstream payloads and what the proxy routes make of them
\* ========================================================================
\* A string is the sequence of its characters.  The three characters of
\* Needle stand for the text 'Inventory Check - Departure'.
Needle == <<"I", "C", "D">>

\* activity.subject when it is a string: empty, without the text, the text
\* itself, the text inside a longer subject, a proper prefix of the text
SubjectStrings ==
  {<<>>, <<"x">>, Needle, <<"x">> \o Needle \o <<"x">>, <<"I", "C">>}

\* s.includes(n)
Includes(s, n) ==
  \E i \in 1..(Len(s) - Len(n) + 1) : SubSeq(s, i, i + Len(n) - 1) = n

\* an element of originalData.content; hasSubject is FALSE for an activity
\* without a subject property
Activities ==
  {a \in [activityType : {"CLEANING", "OTHER", Undefined},
          hasSubject : BOOLEAN,
          subject : SubjectStrings] : ~a.hasSubject => a.subject = <<>>}

\* the arrays of at most MaxContent activities
Contents == UNION {[1..n -> Activities] : n \in 0..MaxContent}

\* originalData.totalElements: absent, or the total over all pages
UpTotals == {Missing, 1, 250}

\* response.data of GET /api/v3/activities; hasContent is FALSE for a payload
\* of another structure
ListPayloads ==
  {p \in [hasContent : BOOLEAN, content : Contents, totalElements : UpTotals] :
     ~p.hasContent => p.content = <<>>}

\* the filter a deployment applies to the list: none (src/node.js:241), the
\* CLEANING rule (src/unnamed/part_000:297), the Inventory-Check rule
\* (src/node.js:504)
Rules == {"none", "cleaning", "inventory"}

\* !!activity.subject
SubjectTruthy(a) == a.hasSubject /\ a.subject # <<>>

\* mutant: the subject test left out
KeepCleaningAnySubject(a) == a.activityType = "CLEANING"

\* activity.activityType === 'CLEANING' &&
\* (!activity.subject || !activity.subject.includes('Inventory Check - Departure'))
KeepCleaning(a) ==
  /\ a.activityType = "CLEANING"
  /\ (~SubjectTruthy(a) \/ ~Includes(a.subject, Needle))

\* activity.subject && activity.subject.includes('Inventory Check - Departure')
KeepInventory(a) == SubjectTruthy(a) /\ Includes(a.subject, Needle)

Keep(rule, a) == IF rule = "cleaning" THEN KeepCleaning(a) ELSE KeepInventory(a)

\* originalData.content.filter(...): the elements are visited in index order
\* and the kept ones appended to the result
RECURSIVE FilterFrom(_, _, _, _)
FilterFrom(rule, content, i, out) ==
  IF i > Len(content) THEN out
  ELSE FilterFrom(rule, content, i + 1,
                  IF Keep(rule, content[i]) THEN Append(out, content[i]) ELSE out)

Filter(rule, content) == FilterFrom(rule, content, 1, <<>>)

FilterCriteria(rule) ==
  IF rule = "cleaning"
  THEN "activityType=CLEANING and excluding \"Inventory Check - Departure\""
  ELSE "subject contains \"Inventory Check - Departure\""

\* mutant: totalElements left as the upstream sent it
ListReplyKeepsTotal(rule, p) ==
  IF rule # "none" /\ p.hasContent
  THEN [route |-> "list", status |-> 200, hasContent |-> TRUE,
        content |-> Filter(rule, p.content),
        numberOfElements |-> Len(Filter(rule, p.content)),
        totalElements |-> p.totalElements,
        filtered |-> TRUE,
        originalTotalElements |-> p.totalElements,
        filterCriteria |-> FilterCriteria(rule)]
  ELSE [route |-> "list", status |-> 200, hasContent |-> p.hasContent,
        content |-> p.content, numberOfElements |-> Missing,
        totalElements |-> p.totalElements, filtered |-> FALSE,
        originalTotalElements |-> Missing, filterCriteria |-> ""]

\* the body res.json sends for the list: filteredResponse when a rule applies
\* and content is an array, originalData as it came otherwise (a field the
\* body does not have is Missing, FALSE or "")
ListReply(rule, p) ==
  IF rule # "none" /\ p.hasContent
  THEN [route |-> "list", status |-> 200, hasContent |-> TRUE,
        content |-> Filter(rule, p.content),
        numberOfElements |-> Len(Filter(rule, p.content)),
        totalElements |-> Len(Filter(rule, p.content)),
        filtered |-> TRUE,
        originalTotalElements |-> p.totalElements,
        filterCriteria |-> FilterCriteria(rule)]
  ELSE [route |-> "list", status |-> 200, hasContent |-> p.hasContent,
        content |-> p.content, numberOfElements |-> Missing,
        totalElements |-> p.totalElements, filtered |-> FALSE,
        originalTotalElements |-> Missing, filterCriteria |-> ""]

\* the rules a deployment can run: the authorization-code deployment filters
\* nothing, a client-credentials deployment runs one of the two rules
RulesOf(v) == IF v = "authcode" THEN {"none"} ELSE {"cleaning", "inventory"}

\* GET /api/v3/activities from the 2xx answer of the upstream API on.  A
\* handler keeps nothing of an answer once its reply is sent, so a behaviour
\* follows one answer only
ListAnswer(rule, p) ==
  /\ reply = NoReply
  /\ rule \in RulesOf(variant)
  /\ p \in ListPayloads
  /\ response' = [route |-> "list", rule |-> rule, data |-> p]
  /\ reply' = ListReply(rule, p)
  /\ UNCHANGED <<variant, now, tokenVars, reqVars, res, depositVars>>

\* response.data of GET /api/v3/activities/:id: an activity, or nothing
\* (present is FALSE for null and for an empty body)
NoActivity == [activityType |-> Undefined, hasSubject |-> FALSE, subject |-> <<>>]
GetPayloads ==
  {[present |-> TRUE, activity |-> a] : a \in Activities}
    \cup {[present |-> FALSE, activity |-> NoActivity]}

\* mutant: the activityType check left out, as in the authorization-code
\* deployment
GetReplyPassThrough(v, p) ==
  [route |-> "get", status |-> 200, error |-> "", activityType |-> Undefined,
   filterCriteria |-> "", present |-> p.present, data |-> p.activity]

\* what GET /api/v3/activities/:id sends for a 2xx upstream answer: the 404
\* of the client-credentials deployments for an activity of another type,
\* response.data otherwise (a field the body does not have is Undefined, "" or
\* NoActivity)
GetReply(v, p) ==
  IF v = "clientcred" /\ p.present /\ p.activity.activityType # "CLEANING"
  THEN [route |-> "get", status |-> 404,
        error |-> "Activity not found or not a cleaning activity",
        activityType |-> p.activity.activityType,
        filterCriteria |-> "activityType=CLEANING",
        present |-> FALSE, data |-> NoActivity]
  ELSE [route |-> "get", status |-> 200, error |-> "", activityType |-> Undefined,
        filterCriteria |-> "", present |-> p.present, data |-> p.activity]

\* GET /api/v3/activities/:id from the 2xx answer of the upstream API on
GetAnswer(p) ==
  /\ reply = NoReply
  /\ p \in GetPayloads
  /\ response' = [route |-> "get", data |-> p]
  /\ reply' = GetReply(variant, p)
  /\ UNCHANGED <<variant, now, tokenVars, reqVars, res, depositVars>>

\* ------------------------------------------------------------------------
\* app.use('/api/*'): the request sent upstream and the answer passed on
\* ------------------------------------------------------------------------
Methods == {"GET", "POST", "PUT", "PATCH", "DELETE"}
BodyMethods == {"POST", "PUT", "PATCH"}

\* '/api', character by character
ApiPrefix == <<"/", "a", "p", "i">>

\* req.originalUrl: /api/x, /api/x/api/y and /api/apis
OriginalUrls ==
  {ApiPrefix \o <<"/", "x">>,
   ApiPrefix \o <<"/", "x">> \o ApiPrefix \o <<"/", "y">>,
   ApiPrefix \o ApiPrefix \o <<"s">>}

\* req.body, NoData when the client sent none
NoData == "<no data>"
ClientBodies == {NoData, "b1"}

ForwardRequests ==
  [method : Methods, originalUrl : OriginalUrls, body : ClientBodies]

\* the least index at which pat occurs in s, 0 when it does not occur
FirstIndexOf(s, pat) ==
  LET hits == {i \in 1..(Len(s) - Len(pat) + 1) : SubSeq(s, i, i + Len(pat) - 1) = pat}
  IN IF hits = {} THEN 0 ELSE CHOOSE i \in hits : \A j \in hits : i <= j

\* s.replace(pat, ''): the first occurrence of pat is cut out
ReplaceFirst(s, pat) ==
  LET i == FirstIndexOf(s, pat)
  IN IF i = 0 THEN s
     ELSE SubSeq(s, 1, i - 1) \o SubSeq(s, i + Len(pat), Len(s))

\* mutant: the prefix cut from the url and not put back
ForwardConfigNoPrefix(req) ==
  [method |-> req.method,
   url |-> ReplaceFirst(req.originalUrl, ApiPrefix),
   data |-> IF req.method \in BodyMethods THEN req.body ELSE NoData]

\* the axios config of the upstream call; url is the part after
\* OAUTH_CONFIG.baseUrl
ForwardConfig(req) ==
  [method |-> req.method,
   url |-> ApiPrefix \o ReplaceFirst(req.originalUrl, ApiPrefix),
   data |-> IF req.method \in BodyMethods THEN req.body ELSE NoData]

\* what the upstream API answers: a status with a body, or nothing (NoStatus)
SuccessStatuses == {200, 201}
ForwardStatuses == SuccessStatuses \cup {401, 404, NoStatus}
Docs == {"doc1", "doc2"}
ForwardAnswers == [status : ForwardStatuses, data : Docs]

\* axios resolves for 2xx and throws for anything else; message is
\* error.response?.data?.message || error.message
ForwardReply(v, a) ==
  IF a.status \in SuccessStatuses
  THEN Response("forward", a.status, FALSE, a.data)
  ELSE ErrorResponse(v, "forward", [status |-> a.status, message |-> "Request failed"])

\* app.use('/api/*') from the building of the upstream request on
ForwardAnswer(req, a) ==
  /\ reply = NoReply
  /\ req \in ForwardRequests
  /\ a \in ForwardAnswers
  /\ response' = [route |-> "forward", request |-> req,
                  config |-> ForwardConfig(req), answer |-> a]
  /\ reply' = ForwardReply(variant, a)
  /\ UNCHANGED <<variant, now, tokenVars, reqVars, res, depositVars>>

NextPayload ==
  /\ reply = NoReply
  /\ \/ \E rule \in Rules, p \in ListPayloads : ListAnswer(rule, p)
     \/ \E p \in GetPayloads : GetAnswer(p)
     \/ \E req \in ForwardRequests, a \in ForwardAnswers : ForwardAnswer(req, a)

SpecPayload == Init /\ [][NextPayload]_vars

\* ========================================================================
\* Claims on the payloads
\* ========================================================================
\* the list route has just filtered an upstream payload
FilteringApplied ==
  /\ response.route = "list"
  /\ response.rule # "none"
  /\ response.data.hasContent

\* the rules in the claims' words
ContainsNeedle(a) == a.hasSubject /\ Includes(a.subject, Needle)
CleaningRule(a) == a.activityType = "CLEANING" /\ ~ContainsNeedle(a)

C14_FilteredEnvelope ==
  FilteringApplied =>
    /\ reply.numberOfElements = Len(reply.content)
    /\ reply.totalElements = Len(reply.content)
    /\ reply.filtered = TRUE
    /\ reply.filterCriteria # ""
    /\ reply.originalTotalElements = Len(response.data.content)

\* C14 as the code has it.  Whenever filtering is applied, numberOfElements
\* and totalElements both equal the length of the filtered content, filtered
\* is true, filterCriteria is the text of the rule applied, and
\* originalTotalElements is the totalElements field of the upstream payload,
\* absent when the upstream payload has none.
C14_EnvelopeCopiesUpstreamTotal ==
  FilteringApplied =>
    /\ reply.numberOfElements = Len(reply.content)
    /\ reply.totalElements = Len(reply.content)
    /\ reply.filtered = TRUE
    /\ reply.filterCriteria = FilterCriteria(response.rule)
    /\ reply.originalTotalElements = response.data.totalElements

\* C14 witness: two activities of a paged result of 250 have been filtered
\* down to one
C14_Witness ==
  /\ FilteringApplied
  /\ Len(response.data.content) = 2
  /\ response.data.totalElements = 250
  /\ Len(reply.content) = 1
  /\ reply.totalElements = 1
  /\ reply.originalTotalElements = 250

\* ========================================================================
\* Claims on the responses of the routes
\* ========================================================================
\* the step is a handler learning that it gets no token: the token endpoint
\* failed, or there is no refresh token to try
TokenFailureStep ==
  \/ \E r \in Req :
       /\ pc[r] = "awaitToken"
       /\ pc'[r] = "idle"
       /\ \/ \E route \in ProxyRoutes \cup {"test"} : AcquireFails(r, route)
          \/ \E route \in ProxyRoutes : RefreshFails(r, route)
  \/ /\ variant = "authcode"
     /\ reqVars' = reqVars
     /\ \E route \in ProxyRoutes : NoRefreshToken(route)

\* C15: authentication failures are reported as 401 with requiresAuth: true
\* by every endpoint that obtains a token: the three proxy routes and
\* GET /auth/test.
C15_AuthFailureIs401 ==
  [][TokenFailureStep => (res'.status = 401 /\ res'.requiresAuth = TRUE)]_vars

\* the statuses with which an upstream call fails (NoStatus: no answer)
FailureStatuses == (UpstreamStatuses \cup {NoStatus}) \ {200}

\* C16: upstream error mapping, the same for list, get and forward.  An
\* upstream 401 gives 401 with requiresAuth: true; any other upstream error
\* gives the upstream status, or 500 when the failure carried none, with an
\* error body and without requiresAuth; tokenStorage is left as it was.
C16_UpstreamErrorMapping ==
  [][\A r \in Req :
       (pc[r] = "awaitUpstream" /\ pc'[r] = "idle") =>
     \A route \in ProxyRoutes, status \in FailureStatuses :
       UpstreamResponds(r, route, status, "CLEANING") =>
         /\ res'.route = route
         /\ res'.body # ""
         /\ IF status = 401
            THEN res'.status = 401 /\ res'.requiresAuth = TRUE
            ELSE /\ res'.status = IF status = NoStatus THEN 500 ELSE status
                 /\ res'.requiresAuth = FALSE
         /\ tokenStorage' = tokenStorage]_vars

\* C16 witness: an upstream 503 has just been passed on while the cached
\* token, valid beyond the buffer, stays in place
C16_Witness ==
  /\ res.route \in ProxyRoutes
  /\ res.status = 503
  /\ CachedBeyondBuffer

\* C17: no retries and exactly one response.  A proxy request makes at most
\* one token-endpoint call and at most one upstream call; when its token call
\* fails it is answered 401 without any upstream call; it is answered in the
\* step that ends it, by one response of its own route, and in no step before.
C17_OneCallOneResponse ==
  [][\A r \in Req :
       /\ tcalls[r] <= 1 /\ tcalls'[r] <= 1
       /\ pc[r] = "awaitUpstream" => pc'[r] \in {"awaitUpstream", "idle"}
       /\ (pc[r] = "awaitToken" /\ kind[r] = "proxy" /\ pc'[r] = "awaitUpstream") =>
            /\ tok'[r] = tokenStorage'.accessToken
            /\ res' = NoResponse
       /\ (pc[r] = "awaitToken" /\ kind[r] = "proxy" /\ pc'[r] = "idle") =>
            /\ res'.status = 401
            /\ res'.route \in ProxyRoutes
       /\ (pc[r] = "awaitUpstream" /\ pc'[r] = "idle") =>
            /\ res'.status # NoStatus
            /\ res'.route \in ProxyRoutes
       /\ (pc[r] = "idle" /\ pc'[r] # "idle") => res' = NoResponse]_vars

\* C17 witness: a proxy request that made one token-endpoint call and got a
\* token has its one upstream call in flight
C17_Witness ==
  \E r \in Req :
    /\ kind[r] = "proxy"
    /\ pc[r] = "awaitUpstream"
    /\ tcalls[r] = 1
    /\ tok[r] \in Tokens

\* ========================================================================
\* Claims on single activities and on the generic proxy
\* ========================================================================
\* C18: getActivity in the CLEANING-only deployments.  When the upstream
\* returns an activity whose activityType is not "CLEANING" (or is missing),
\* the response is 404 with the error text, that activityType and the filter
\* criteria; when it is "CLEANING" the record is passed on with 200.
C18_GetActivityCleaningOnly ==
  (response.route = "get" /\ variant = "clientcred" /\ response.data.present) =>
    IF response.data.activity.activityType = "CLEANING"
    THEN /\ reply.status = 200
         /\ reply.present
         /\ reply.data = response.data.activity
    ELSE /\ reply.status = 404
         /\ reply.error = "Activity not found or not a cleaning activity"
         /\ reply.activityType = response.data.activity.activityType
         /\ reply.filterCriteria = "activityType=CLEANING"

\* C18 witness: an activity without activityType has been answered 404
C18_Witness ==
  /\ response.route = "get"
  /\ variant = "clientcred"
  /\ response.data.present
  /\ response.data.activity.activityType = Undefined
  /\ reply.status = 404

\* C19: generic forward.  For every method and path the upstream request has
\* the client's method, path and body, and for every upstream status the
\* client gets that status and the upstream body as it came.
C19_ForwardVerbatim ==
  (response.route = "forward" /\ response.answer.status # NoStatus) =>
    /\ response.config.method = response.request.method
    /\ response.config.url = response.request.originalUrl
    /\ response.config.data = response.request.body
    /\ reply.status = response.answer.status
    /\ reply.body = response.answer.data

\* C19 as the code has it.  The upstream request has the client's method and
\* path, and the client's body for POST, PUT and PATCH (no body for any other
\* method).  The client gets the upstream's status for every upstream status
\* (500 when there was no answer); it gets the upstream's body as it came
\* for a 2xx answer, and the error body of the routes' error mapping, with
\* requiresAuth for a 401 only, for any other.
C19_ForwardRelay ==
  response.route = "forward" =>
    /\ response.config.method = response.request.method
    /\ response.config.url = response.request.originalUrl
    /\ response.config.data =
         IF response.request.method \in BodyMethods
         THEN response.request.body ELSE NoData
    /\ reply.status =
         IF response.answer.status = NoStatus THEN 500 ELSE response.answer.status
    /\ IF response.answer.status \in SuccessStatuses
       THEN reply.body = response.answer.data /\ ~reply.requiresAuth
       ELSE /\ reply.body \notin Docs
            /\ reply.requiresAuth <=> response.answer.status = 401

\* C19 witness: a DELETE with a body, on a path in which /api occurs twice,
\* has been answered 404 by the upstream API and 404 by the proxy
C19_Witness ==
  /\ response.route = "forward"
  /\ response.request.method = "DELETE"
  /\ response.request.body = "b1"
  /\ Len(response.request.originalUrl) > Len(ApiPrefix) + 5
  /\ response.answer.status = 404
  /\ reply.status = 404

\* C15 as the code has it.  Every endpoint that obtains a token answers a
\* failure to get one with status 401 and the message of the authentication
\* error (never the transport error or the token endpoint's status); the
\* body carries requiresAuth: true on the three proxy routes and does not
\* carry it on GET /auth/test.
C15_AuthFailure401ByRoute ==
  [][TokenFailureStep =>
       /\ res'.status = 401
       /\ res'.body = AuthMessage(variant)
       /\ res'.route \in ProxyRoutes \cup {"test"}
       /\ res'.requiresAuth <=> res'.route \in ProxyRoutes]_vars

\* C15 witness: GET /auth/test has just answered a failed token request
C15_Witness ==
  /\ res.route = "test"
  /\ res.status = 401
  /\ res.body = "Authentication failed"
  /\ ~HasAccessToken


\* ------------------------------------------------------------------------
\* C20: GET /auth/callback
\* ------------------------------------------------------------------------
\* a step in which a GET /auth/callback request is answered
CallbackStep ==
  \/ \E q \in {"error", "nocode"} : CallbackRejected(q)
  \/ \E r \in Req :
       /\ pc[r] = "awaitToken"
       /\ kind[r] = "callback"
       /\ pc'[r] = "idle"
       /\ \/ ExchangeFails(r)
          \/ \E d \in TokenResponses : ExchangeSucceeds(r, d)

\* C20 as stated: every GET /auth/callback request ends in a redirect, with
\* auth=success exactly when the code exchange succeeded and with auth=error
\* in every other case (error parameter, missing code, failed exchange), and
\* then tokenStorage is left unchanged.
C20_CallbackAlwaysRedirects ==
  [][CallbackStep =>
       /\ res'.route = "callback"
       /\ res'.status = 302
       /\ res'.body \in {"auth=success", "auth=error"}
       /\ res'.body = "auth=success" <=>
            \E r \in Req, d \in TokenResponses : ExchangeSucceeds(r, d)
       /\ res'.body = "auth=error" => tokenStorage' = tokenStorage]_vars

\* C20 amended: a request with an error parameter or without a code is
\* answered 400 with a JSON error and no redirect, tokenStorage unchanged; a
\* failed exchange redirects with auth=error, tokenStorage unchanged; a
\* successful exchange redirects with auth=success and tokenStorage holds the
\* returned access_token and refresh_token and the expiry now + expires_in
\* seconds (NaN when the answer has no expires_in).
C20_CallbackOutcome ==
  [][/\ \A q \in {"error", "nocode"} : CallbackRejected(q) =>
          /\ res'.route = "callback"
          /\ res'.status = 400
          /\ res'.body \notin {"auth=success", "auth=error"}
          /\ tokenStorage' = tokenStorage
     /\ \A r \in Req :
          (pc[r] = "awaitToken" /\ kind[r] = "callback" /\ pc'[r] = "idle") =>
          /\ ExchangeFails(r) =>
               /\ res' = Response("callback", 302, FALSE, "auth=error")
               /\ tokenStorage' = tokenStorage
          /\ \A d \in TokenResponses : ExchangeSucceeds(r, d) =>
               /\ res' = Response("callback", 302, FALSE, "auth=success")
               /\ tokenStorage'.accessToken = d.access_token
               /\ tokenStorage'.refreshToken = d.refresh_token
               /\ tokenStorage'.expiresAt =
                    IF d.expires_in = Missing THEN NaN
                    ELSE now + d.expires_in * MsPerSecond]_vars

\* C20 witness: a successful exchange has redirected with auth=success and
\* tokenStorage holds an access token and a refresh token of the answer
C20_Witness ==
  /\ res = Response("callback", 302, FALSE, "auth=success")
  /\ HasAccessToken
  /\ tokenStorage.refreshToken \in RefreshTokens
  /\ HasExpiry


\* ========================================================================
\* Claims on the token state machine
\* ========================================================================
\* Authenticated, in the claims' words: accessToken is present
Authenticated == Truthy(tokenStorage.accessToken)

\* the step completes a 2xx answer of the token endpoint
TokenSuccessStep ==
  \E r \in Req :
    /\ pc[r] = "awaitToken"
    /\ \/ \E d \in TokenResponses : ExchangeSucceeds(r, d)
       \/ \E d \in TokenResponses : RefreshSucceeds(r, d)
       \/ \E d \in AcquireResponses : AcquireSucceeds(r, d)

\* the step is a failed refresh or POST /auth/logout
TokenClearStep ==
  \/ Logout
  \/ \E r \in Req : pc[r] = "awaitToken" /\ \E route \in ProxyRoutes : RefreshFails(r, route)

\* C21: token state machine.  accessToken goes from absent to present only
\* in a step that completes a successful token-endpoint response (code
\* exchange, refresh, client-credentials acquisition) and from present to
\* absent only in a failed refresh or a logout; no other step changes whether
\* it is present.
C21_TokenStateMachine ==
  [][/\ (~Authenticated /\ Authenticated') => TokenSuccessStep
     /\ (Authenticated /\ ~Authenticated') => TokenClearStep]_vars


\* C22: refresh success (authorization-code variant).  After a successful
\* refresh accessToken is the returned access token, expiresAt is the
\* completion time plus expires_in seconds, refreshToken is the returned
\* refresh token if the answer carried one and otherwise the refresh token
\* that was sent in that refresh request, and getValidAccessToken returns the
\* new access token.
C22_RefreshSuccess ==
  [][\A r \in Req :
       (pc[r] = "awaitToken" /\ kind[r] = "proxy" /\ pc'[r] = "awaitUpstream") =>
         \A d \in TokenResponses :
           RefreshSucceeds(r, d) =>
             /\ tokenStorage'.accessToken = d.access_token
             /\ tokenStorage'.expiresAt =
                  IF d.expires_in = Missing THEN NaN
                  ELSE now + d.expires_in * MsPerSecond
             /\ tokenStorage'.refreshToken =
                  IF d.refresh_token \in RefreshTokens THEN d.refresh_token
                  ELSE sent[r]
             /\ tok'[r] = d.access_token]_vars


\* C23: authorization-code variant, no refresh token cached.  When the
\* cached token does not reach beyond the buffer and refreshToken is absent,
\* a call of getValidAccessToken is answered in the step that makes it, with
\* 401 'Authentication required': no handler is parked on a request to the
\* token endpoint or to the upstream API, and tokenStorage is left as it was.
C23_NoRefreshTokenFailsAtOnce ==
  [][(variant = "authcode" /\ ~CachedBeyondBuffer
       /\ tokenStorage.refreshToken \notin RefreshTokens) =>
       /\ \A route \in ProxyRoutes : ENABLED NoRefreshToken(route)
       /\ \A r \in Req : ~(CallParks(r) /\ kind'[r] = "proxy")
       /\ CallAnswersAtOnce =>
            /\ res' = Response(res'.route, 401, TRUE, "Authentication required")
            /\ tokenStorage' = tokenStorage]_vars

\* C23 witness: a proxy request has just been refused while a stale access
\* token is cached without a refresh token, and the stale token is still there
C23_Witness ==
  /\ variant = "authcode"
  /\ res.route \in ProxyRoutes
  /\ res.status = 401
  /\ HasAccessToken
  /\ CachedWithinBuffer
  /\ tokenStorage.refreshToken = Undefined
  /\ \A r \in Req : pc[r] = "idle"


\* ========================================================================
\* Claims on the persistence of the deposit records
\* ========================================================================
\* a record with both flags boolean and updatedAt set
FullRecord(v) ==
  /\ v.type = "object"
  /\ v.depositReturnComplete \in Booleans
  /\ v.depositTransferredToNewStudio \in Booleans
  /\ v.updatedAt \notin {Absent, Undefined}

\* depositsData[a], the record the routes read for the id a
RecordOf(a) == Lookup(depositsData, depositsProto, a)

\* C24: deposit records persist and updates are local.  A record once stored
\* for a stays stored (never deleted, never back to the default) and every
\* later getStatus(a) answers with a record that has both boolean flags and
\* updatedAt; every stored record has both boolean flags and updatedAt; and a
\* setStatus(a, ...), accepted or refused, leaves the record of every other
\* activity id as it was.
C24_RecordsPersistUpdatesLocal ==
  [][\A a \in NonEmptyIds :
       /\ HasRecord(a) =>
            /\ FullRecord(StoredRecord(a))
            /\ HasRecord(a)'
            /\ GetDeposit(a) =>
                 /\ depositRes'.status = 200
                 /\ FullRecord(depositRes'.body)
       /\ \A b \in Bodies :
            PutDeposit(a, b[1], b[2]) =>
              \A o \in NonEmptyIds \ {a} : RecordOf(o)' = RecordOf(o)]_vars


\* C25: no torn token pair.  accessToken and expiresAt are written together:
\* a step that changes either of them leaves both empty, or is the completion
\* of one token-endpoint answer and leaves the access_token of that answer
\* with the expiry computed from the expires_in of the same answer.  As both
\* are empty at the start, in every reachable state they are both empty or
\* both come from one answer, whatever the interleaving.
C25_NoTornTokenPair ==
  [][(tokenStorage'.accessToken # tokenStorage.accessToken
       \/ tokenStorage'.expiresAt # tokenStorage.expiresAt) =>
       \/ /\ tokenStorage'.accessToken = Null
          /\ tokenStorage'.expiresAt = NullTime
       \/ \E r \in Req :
            /\ pc[r] = "awaitToken"
            /\ pc'[r] # "awaitToken"
            /\ \E d \in TokenResponses :
                 /\ tokenStorage'.accessToken = d.access_token
                 /\ tokenStorage'.expiresAt =
                      IF d.expires_in = Missing THEN NaN
                      ELSE now + d.expires_in * MsPerSecond
                 /\ \/ ExchangeSucceeds(r, d)
                    \/ RefreshSucceeds(r, d)
                    \/ AcquireSucceeds(r, d)]_vars

\* C25 witness: two token calls were in flight together and both completed,
\* the later answer (t2, without expires_in) over the earlier one (t1, with an
\* expiry), after time has passed
C25_Witness ==
  \E a \in Req, b \in Req :
    /\ now > 0
    /\ pc[a] = "awaitUpstream" /\ tcalls[a] = 1 /\ tok[a] = "t1"
    /\ pc[b] = "awaitUpstream" /\ tcalls[b] = 1 /\ tok[b] = "t2"
    /\ tokenStorage.accessToken = "t2"
    /\ tokenStorage.expiresAt = NaN


\* C26: client-credentials variant.  A failed token acquisition leaves
\* tokenStorage as it was; once an access token is cached accessToken is never
\* absent again, and GET /health answers authenticated: true from then on.
C26_AcquiredTokenStays ==
  [][variant = "clientcred" =>
       /\ \A r \in Req :
            (pc[r] = "awaitToken" /\ pc'[r] = "idle") =>
              \A route \in ProxyRoutes \cup {"test"} :
                AcquireFails(r, route) => tokenStorage' = tokenStorage
       /\ Authenticated =>
            /\ Authenticated'
            /\ Health => res' = Response("health", 200, FALSE, "authenticated: true")]_vars


\* C27: list/get consistency within one deployment.  Every activity the list
\* route keeps in its filtered content is accepted by the get route of the
\* same deployment: with the upstream API answering that record, GET
\* /api/v3/activities/:id passes it on with 200 and does not answer 404.
C27_ListGetConsistency ==
  FilteringApplied =>
    \A i \in 1..Len(reply.content) :
      LET got == GetReply(variant, [present |-> TRUE, activity |-> reply.content[i]])
      IN /\ got.status = 200
         /\ got.data = reply.content[i]
====
